---------------------------- MODULE Spec2Model ----------------------------
(***************************************************************************)
(* Row-reduction engine of matrix-solver (src/src/utils/matrixOperations.ts)*)
(*                                                                         *)
(* Numbers.  A JavaScript number is modelled as an exact fraction <<n, d>> *)
(* in lowest terms with d >= 0.  d = 0 encodes the non-finite doubles:     *)
(* <<1,0>> is Infinity, <<-1,0>> is -Infinity and <<0,0>> is NaN.  Finite  *)
(* arithmetic is exact (no rounding error of the double format).           *)
(*                                                                         *)
(* Tolerance.  The source compares against the literal 1e-10.  The model   *)
(* checker's integers are 32 bits wide, so 10^10 cannot be written; the    *)
(* tolerance is TOL = 1/TolDen and every occurrence of 1e-10 in the source *)
(* is TOL here (1e-8 is 100 * TOL).  The comparisons keep the source's     *)
(* strictness (< or >) at each place.                                      *)
(*                                                                         *)
(* Indices are 1-based here and 0-based in the source.                     *)
(*                                                                         *)
(* Storage.  Every matrix value travels with a reference (ref): the        *)
(* identity of the array object that holds its rows.  Two holders with the *)
(* same ref share row storage.                                             *)
(***************************************************************************)
EXTENDS Integers, Sequences, FiniteSets, TLC

\* ------------------------------------------------------------------ bounds
\* Denominator of the modelled tolerance (the source's 1e-10 is 1/10^10).
TolDen == 100
\* Integer entries of the inputs range over -1 .. MaxInt.
MaxInt == 2

\* ------------------------------------------------------------- arithmetic
RECURSIVE GCD(_, _)
GCD(a, b) == IF b = 0 THEN a ELSE GCD(b, a % b)

IAbs(k) == IF k < 0 THEN -k ELSE k
Sgn(k) == IF k < 0 THEN -1 ELSE IF k > 0 THEN 1 ELSE 0
Min(a, b) == IF a < b THEN a ELSE b

\* The fraction n/d in lowest terms, d >= 0; anything over 0 keeps its sign only.
Norm(n, d) ==
    IF d = 0 THEN <<Sgn(n), 0>>
    ELSE IF n = 0 THEN <<0, 1>>
    ELSE LET g == GCD(IAbs(n), IAbs(d))
             s == IF d < 0 THEN -1 ELSE 1
         IN  <<(s * n) \div g, (s * d) \div g>>

Int2Num(k) == <<k, 1>>
Zero == <<0, 1>>
One == <<1, 1>>
NaN == <<0, 0>>
Infinity == <<1, 0>>

IsNaN(x) == x = NaN
IsFinite(x) == x[2] # 0

\* x * y, IEEE: 0 * Infinity and anything with NaN is NaN.  Common factors
\* are cancelled crosswise first, which keeps the products small.
Mul(x, y) ==
    LET g1 == GCD(IAbs(x[1]), y[2])
        g2 == GCD(IAbs(y[1]), x[2])
        a == IF g1 = 0 THEN 1 ELSE g1
        b == IF g2 = 0 THEN 1 ELSE g2
    IN  Norm((x[1] \div a) * (y[1] \div b), (x[2] \div b) * (y[2] \div a))

\* x + y, IEEE: Infinity + Infinity is Infinity, Infinity - Infinity is NaN.
Add(x, y) ==
    IF x[2] = 0 /\ y[2] = 0
    THEN (IF x = y THEN x ELSE NaN)
    ELSE LET g0 == GCD(x[2], y[2])
             g == IF g0 = 0 THEN 1 ELSE g0
         IN  Norm(x[1] * (y[2] \div g) + y[1] * (x[2] \div g), (x[2] \div g) * y[2])

Neg(x) == <<-x[1], x[2]>>
Sub(x, y) == Add(x, Neg(y))

\* x / y, IEEE with y = +0 for a zero divisor: k/0 is +-Infinity, 0/0 is NaN.
Recip(y) == IF y[1] < 0 THEN <<-y[2], -y[1]>> ELSE <<y[2], y[1]>>
Div(x, y) == Mul(x, Recip(y))

\* Math.abs
Abs(x) == <<IAbs(x[1]), x[2]>>

\* a/b < c/d for b, d > 0, by integer parts and then the remainders' reciprocals
\* (no product is formed, so nothing overflows).
RECURSIVE FracLess(_, _, _, _)
FracLess(a, b, c, d) ==
    LET q1 == a \div b
        q2 == c \div d
        r1 == a - q1 * b
        r2 == c - q2 * d
    IN  IF q1 # q2 THEN q1 < q2
        ELSE IF r2 = 0 THEN FALSE
        ELSE IF r1 = 0 THEN TRUE
        ELSE FracLess(d, r2, b, r1)

\* x < y and x > y; every comparison with NaN is false.
Lt(x, y) ==
    IF IsNaN(x) \/ IsNaN(y) THEN FALSE
    ELSE IF x[2] = 0 /\ y[2] = 0 THEN x[1] < y[1]
    ELSE IF x[2] = 0 THEN x[1] < 0
    ELSE IF y[2] = 0 THEN y[1] > 0
    ELSE FracLess(x[1], x[2], y[1], y[2])
Gt(x, y) == Lt(y, x)

\* The tolerance literal 1e-10 of the source.
TOL == <<1, TolDen>>

\* ---------------------------------------------------------------- helpers
Rows(M) == Len(M)
Cols(M) == Len(M[1])

\* A JavaScript array, built: the list with every element computed once, the
\* way map, the spread [...row] and push build one.
Array(s) == s \o <<>>

\* copyMatrix: the same values in fresh row arrays (the caller gives the ref).
copyMatrix(M) == Array([i \in 1..Len(M) |-> Array([j \in 1..Len(M[i]) |-> M[i][j]])])

swapRows(M, row1, row2) ==
    Array([i \in 1..Len(M) |->
              IF i = row1 THEN M[row2] ELSE IF i = row2 THEN M[row1] ELSE M[i]])

multiplyRow(M, row, scalar) ==
    Array([i \in 1..Len(M) |->
              IF i = row THEN Array([j \in 1..Len(M[i]) |-> Mul(M[i][j], scalar)])
              ELSE M[i]])

\* result[targetRow][j] += scalar * result[sourceRow][j], j ascending; when
\* targetRow = sourceRow the source entry read is the one being updated.
addRows(M, targetRow, sourceRow, scalar) ==
    Array([i \in 1..Len(M) |->
              IF i = targetRow
              THEN Array([j \in 1..Len(M[i]) |->
                             Add(M[i][j], Mul(scalar, M[sourceRow][j]))])
              ELSE M[i]])

\* ---------------------------------------------------- row arrays in memory
\* The same four helpers with the row arrays told apart.  The memory is the
\* list of the row arrays allocated so far; a matrix is the list of the places
\* of its rows in it.  A new array goes to the end of the memory.
ValueOf(heap, m) == Array([i \in 1..Len(m) |-> heap[m[i]]])

\* A copy that keeps the rows of its argument: matrix.slice(), not the source's
\* matrix.map(row => [...row]).
sliceIn(heap, m) == [heap |-> heap, m |-> m]

\* matrix.map(row => [...row]): one new row array per row.
copyMatrixIn(heap, m) ==
    [heap |-> heap \o ValueOf(heap, m),
     m |-> Array([i \in 1..Len(m) |-> Len(heap) + i])]

\* [result[row1], result[row2]] = [result[row2], result[row1]] on the copy.
swapRowsIn(heap, m, row1, row2) ==
    [heap |-> copyMatrixIn(heap, m).heap,
     m |-> Array([i \in 1..Len(m) |->
                     IF i = row1 THEN copyMatrixIn(heap, m).m[row2]
                     ELSE IF i = row2 THEN copyMatrixIn(heap, m).m[row1]
                     ELSE copyMatrixIn(heap, m).m[i]])]

\* result[row] = result[row].map(val => val * scalar): map makes a new array.
multiplyRowIn(heap, m, row, scalar) ==
    [heap |-> Append(copyMatrixIn(heap, m).heap,
                     Array([j \in 1..Len(heap[m[row]]) |->
                               Mul(copyMatrixIn(heap, m).heap[copyMatrixIn(heap, m).m[row]][j],
                                   scalar)])),
     m |-> [copyMatrixIn(heap, m).m EXCEPT ![row] = Len(copyMatrixIn(heap, m).heap) + 1]]

\* The loop of addRows from column j on: result[targetRow][j] += scalar *
\* result[sourceRow][j], written into the target row array where it lies.
RECURSIVE AddInto(_, _, _, _, _)
AddInto(heap, target, source, scalar, j) ==
    IF j > Len(heap[target]) THEN heap
    ELSE AddInto([heap EXCEPT ![target][j] = Add(@, Mul(scalar, heap[source][j]))],
                 target, source, scalar, j + 1)

addRowsIn(heap, m, targetRow, sourceRow, scalar) ==
    [heap |-> AddInto(copyMatrixIn(heap, m).heap, copyMatrixIn(heap, m).m[targetRow],
                      copyMatrixIn(heap, m).m[sourceRow], scalar, 1),
     m |-> copyMatrixIn(heap, m).m]

isSquareMatrix(M) == Rows(M) = Cols(M)

\* For systems of equations: n x (n+1).
isAugmentedMatrix(M) == Cols(M) = Rows(M) + 1

\* ------------------------------------------------------------ validateMatrix
\* The argument of validateMatrix: an array of rows, or null / undefined
\* (present = FALSE).
Given(rows) == [present |-> TRUE, rows |-> rows]
Missing == [present |-> FALSE, rows |-> <<>>]

\* The entry test that lets Infinity pass: isNaN alone.
OnlyNaNRejected(x) == IsNaN(x)

\* isNaN(matrix[i][j]) || !isFinite(matrix[i][j])
Rejected(x) == IsNaN(x) \/ ~IsFinite(x)

\* for (let j = 0; j < matrix[i].length; j++): false at the first bad entry.
RECURSIVE ValidEntries(_, _)
ValidEntries(row, j) ==
    IF j > Len(row) THEN TRUE
    ELSE IF Rejected(row[j]) THEN FALSE
    ELSE ValidEntries(row, j + 1)

\* for (let i = 0; i < matrix.length; i++): the length test, then the entries.
RECURSIVE ValidRows(_, _, _)
ValidRows(matrix, cols, i) ==
    IF i > Len(matrix) THEN TRUE
    ELSE IF Len(matrix[i]) # cols THEN FALSE
    ELSE IF ~ValidEntries(matrix[i], 1) THEN FALSE
    ELSE ValidRows(matrix, cols, i + 1)

validateMatrix(matrix) ==
    IF ~matrix.present \/ Len(matrix.rows) = 0 THEN FALSE
    ELSE ValidRows(matrix.rows, Len(matrix.rows[1]), 1)

cleanNumber(num) == IF Lt(Abs(num), TOL) THEN Zero ELSE num

cleanMatrix(M) ==
    Array([i \in 1..Len(M) |-> Array([j \in 1..Len(M[i]) |-> cleanNumber(M[i][j])])])

\* ------------------------------------------------------------------ steps
\* A Step: description (its template), matrix snapshot with the ref of its
\* storage, highlightedRows and the operation tag ("" when the field is absent).
Step(desc, M, ref, hl, op) ==
    [description |-> desc, matrix |-> M, ref |-> ref,
     highlightedRows |-> hl, operation |-> op]

\* steps.push({..., matrix: copyMatrix(matrix), ...}): the snapshot is a fresh
\* copy, so it takes the next unused ref.
Push(st, desc, hl, op) ==
    [st EXCEPT !.steps = Append(@, Step(desc, copyMatrix(st.matrix), st.alloc + 1, hl, op)),
               !.alloc = @ + 1]

\* The ref of the caller's matrix; engine allocations start above it.
InputRef == 0

\* An assignment into the rows of the array with the given ref (result[row] =
\* ..., result[row][j] += ...): the caller's array changes when it is the one
\* written.
Store(st, ref, M) ==
    [st EXCEPT !.inputMatrix = IF ref = InputRef THEN M ELSE @]

\* matrix = f(matrix) for a row helper f: f copies its argument (a new array)
\* and writes into the copy, which the working variable then holds.
Assign(st, M) ==
    Store([st EXCEPT !.matrix = M, !.mref = st.alloc + 1, !.alloc = @ + 1],
          st.alloc + 1, M)

\* matrix = f(matrix); matrix = cleanMatrix(matrix): the helper's copy is
\* written, cleanMatrix builds a second new array.
AssignClean(st, M) ==
    Store([st EXCEPT !.matrix = cleanMatrix(M), !.mref = st.alloc + 2, !.alloc = @ + 2],
          st.alloc + 1, M)

\* An optional field of a SolutionResult that is absent (undefined).  A present
\* determinant d is <<d>>; a present solution is the non-empty list itself
\* (the source returns undefined for an empty one).
Absent == <<>>

\* Start without the private copy: the working variable is the argument's own
\* array and the cleaning is written into it.
StartInPlace(inputMatrix, alloc) ==
    [matrix |-> cleanMatrix(inputMatrix), mref |-> InputRef,
     inputMatrix |-> cleanMatrix(inputMatrix),
     steps |-> <<>>, alloc |-> alloc,
     currentRow |-> 1, eliminationHappened |-> FALSE, solution |-> <<>>,
     lead |-> 1, determinant |-> One, swapCount |-> 0, returned |-> FALSE]

\* The working state of an engine function: the local variable matrix with the
\* ref of the array it holds, the steps pushed so far, the allocation counter
\* (the last ref handed out), and the function's other locals at their initial
\* values (inputMatrix, the content of the argument's array; currentRow,
\* eliminationHappened and solution of gaussianElimination,
\* lead of gaussJordan, determinant and swapCount of calculateDeterminant;
\* returned is set once the return inside the column loop has been taken).
Start(inputMatrix, alloc) ==
    [matrix |-> cleanMatrix(copyMatrix(inputMatrix)), mref |-> alloc + 2,
     inputMatrix |-> inputMatrix,
     steps |-> <<>>, alloc |-> alloc + 2,
     currentRow |-> 1, eliminationHappened |-> FALSE, solution |-> <<>>,
     lead |-> 1, determinant |-> One, swapCount |-> 0, returned |-> FALSE]

\* What gaussianElimination and gaussJordan return.
SolutionOf(st) ==
    [steps |-> st.steps,
     alloc |-> st.alloc,
     input |-> st.inputMatrix,
     result |-> [finalMatrix |-> st.matrix, ref |-> st.mref,
                 solution |-> IF Len(st.solution) > 0 THEN st.solution ELSE Absent,
                 determinant |-> Absent]]

\* The pivot search with a later row winning a tie.
RECURSIVE GEPivotRowLast(_, _, _, _, _)
GEPivotRowLast(M, col, row, pivotRow, maxVal) ==
    IF row > Len(M) THEN pivotRow
    ELSE IF ~Lt(Abs(M[row][col]), maxVal)
         THEN GEPivotRowLast(M, col, row + 1, row, Abs(M[row][col]))
         ELSE GEPivotRowLast(M, col, row + 1, pivotRow, maxVal)

\* ---------------------------------------------------- gaussianElimination
\* The pivot search: the first row at or below currentRow whose entry in col
\* has the largest absolute value (a later row wins only when strictly larger).
RECURSIVE GEPivotRow(_, _, _, _, _)
GEPivotRow(M, col, row, pivotRow, maxVal) ==
    IF row > Len(M) THEN pivotRow
    ELSE IF Gt(Abs(M[row][col]), maxVal)
         THEN GEPivotRow(M, col, row + 1, row, Abs(M[row][col]))
         ELSE GEPivotRow(M, col, row + 1, pivotRow, maxVal)

\* Swap: move the best pivot to the current row.
GESwap(st, pivotRow) ==
    IF pivotRow # st.currentRow
    THEN Push(Assign(st, swapRows(st.matrix, st.currentRow, pivotRow)),
              "Swap Row", <<st.currentRow, pivotRow>>, "swap")
    ELSE st

\* Scale: make the pivot equal to 1, only if it is not already 1.
GEScale(st, col) ==
    IF Gt(Abs(Sub(st.matrix[st.currentRow][col], One)), TOL)
    THEN Push(AssignClean(st, multiplyRow(st.matrix, st.currentRow,
                                          Div(One, st.matrix[st.currentRow][col]))),
              "Scale Row", <<st.currentRow>>, "multiply")
    ELSE st

\* Eliminate: the loop over the rows below the pivot.
RECURSIVE GEEliminate(_, _, _)
GEEliminate(st, col, row) ==
    IF row > Rows(st.matrix) THEN st
    ELSE IF Gt(Abs(st.matrix[row][col]), TOL)
         THEN GEEliminate(
                  Push(AssignClean([st EXCEPT !.eliminationHappened = TRUE],
                                   addRows(st.matrix, row, st.currentRow,
                                           Neg(st.matrix[row][col]))),
                       "Eliminate entry", <<st.currentRow, row>>, "add"),
                  col, row + 1)
         ELSE GEEliminate(st, col, row + 1)

\* The end of the column loop's body: the no-elimination step, currentRow++.
GENextRow(st) ==
    IF ~st.eliminationHappened
    THEN [Push(st, "already has zeros below the pivot", <<st.currentRow>>, "")
             EXCEPT !.currentRow = @ + 1]
    ELSE [st EXCEPT !.currentRow = @ + 1]

\* The column loop's body with the skip of a zero column moving to the next
\* row as well.
GEReduceAdvancing(st, col, pivotRow) ==
    IF Lt(Abs(st.matrix[pivotRow][col]), TOL)
    THEN [Push(st, "All entries below are zero", <<st.currentRow>>, "")
             EXCEPT !.currentRow = @ + 1]
    ELSE GENextRow(GEEliminate([GEScale(GESwap(st, pivotRow), col)
                                    EXCEPT !.eliminationHappened = FALSE],
                               col, st.currentRow + 1))

\* The column loop's body after the pivot search.
GEReduce(st, col, pivotRow) ==
    IF Lt(Abs(st.matrix[pivotRow][col]), TOL)
    THEN Push(st, "All entries below are zero", <<st.currentRow>>, "")
    ELSE GENextRow(GEEliminate([GEScale(GESwap(st, pivotRow), col)
                                    EXCEPT !.eliminationHappened = FALSE],
                               col, st.currentRow + 1))

GEColumn(st, col) ==
    GEReduce(st, col, GEPivotRow(st.matrix, col, st.currentRow + 1, st.currentRow,
                                 Abs(st.matrix[st.currentRow][col])))

\* The forward-elimination loop: for (col = 0; col < Math.min(n, m - 1); col++).
RECURSIVE GEColumns(_, _)
GEColumns(st, col) ==
    IF col > Min(Rows(st.matrix), Cols(st.matrix) - 1) \/ st.currentRow > Rows(st.matrix)
    THEN st
    ELSE GEColumns(GEColumn(Push(st, "Working on Column", <<st.currentRow>>, ""), col),
                   col + 1)

\* The inner loop of back-substitution: sum -= matrix[i][j] * solution[n-1-j].
RECURSIVE BackSum(_, _, _, _, _)
BackSum(M, solution, i, j, sum) ==
    IF j > Rows(M) THEN sum
    ELSE BackSum(M, solution, i, j + 1,
                 Sub(sum, Mul(M[i][j], solution[Rows(M) - j + 1])))

\* Back-substitution with a guard: a variable whose coefficient is zero is
\* set to 0 and nothing is divided.
RECURSIVE BackSubstituteGuarded(_, _)
BackSubstituteGuarded(st, i) ==
    IF i < 1 THEN st
    ELSE BackSubstituteGuarded(
             Push([st EXCEPT !.solution =
                      <<IF st.matrix[i][i] = Zero THEN Zero
                        ELSE cleanNumber(Div(BackSum(st.matrix, st.solution, i, i + 1,
                                                     st.matrix[i][Cols(st.matrix)]),
                                             st.matrix[i][i]))>> \o @],
                  "Solved", <<i>>, ""),
             i - 1)

\* Back-substitution from the bottom row up; solution.unshift(value).
RECURSIVE BackSubstitute(_, _)
BackSubstitute(st, i) ==
    IF i < 1 THEN st
    ELSE BackSubstitute(
             Push([st EXCEPT !.solution =
                      <<cleanNumber(Div(BackSum(st.matrix, st.solution, i, i + 1,
                                                st.matrix[i][Cols(st.matrix)]),
                                        st.matrix[i][i]))>> \o @],
                  "Solved", <<i>>, ""),
             i - 1)

GEBackSubstitution(st) ==
    IF Cols(st.matrix) = Rows(st.matrix) + 1
    THEN BackSubstitute(Push(st, "Starting Back Substitution", <<>>, ""), Rows(st.matrix))
    ELSE st

gaussianEliminationFrom(inputMatrix, alloc) ==
    SolutionOf(GEBackSubstitution(
        Push(GEColumns(Push(Start(inputMatrix, alloc), "Initial Matrix", <<>>, ""), 1),
             "Row Echelon Form Achieved", <<>>, "")))

gaussianElimination(inputMatrix) == gaussianEliminationFrom(inputMatrix, InputRef)

\* ------------------------------------------------------------ gaussJordan
\* The pivot search: while (|matrix[pivotRow][lead]| < 1e-10) { pivotRow++; ... }.
\* Returns the row found and the lead reached (lead = m + 1: columns ran out).
RECURSIVE GJFindPivot(_, _, _, _)
GJFindPivot(M, row, pivotRow, lead) ==
    IF ~Lt(Abs(M[pivotRow][lead]), TOL) THEN [pivotRow |-> pivotRow, lead |-> lead]
    ELSE IF pivotRow + 1 = Rows(M) + 1
         THEN (IF lead + 1 = Cols(M) + 1
               THEN [pivotRow |-> row, lead |-> lead + 1]
               ELSE GJFindPivot(M, row, row, lead + 1))
         ELSE GJFindPivot(M, row, pivotRow + 1, lead)

\* Swap: move the pivot row to the current position.
GJSwap(st, row, pivotRow) ==
    IF pivotRow # row
    THEN Push(Assign(st, swapRows(st.matrix, row, pivotRow)),
              "Swap Row", <<row, pivotRow>>, "swap")
    ELSE st

\* Scale: only if the pivot is non zero and not already 1.
GJScale(st, row) ==
    IF Gt(Abs(st.matrix[row][st.lead]), TOL)
       /\ Gt(Abs(Sub(st.matrix[row][st.lead], One)), TOL)
    THEN Push(AssignClean(st, multiplyRow(st.matrix, row,
                                          Div(One, st.matrix[row][st.lead]))),
              "Scale Row", <<row>>, "multiply")
    ELSE st

\* Eliminate: the loop over every row i other than the pivot row.
RECURSIVE GJEliminate(_, _, _)
GJEliminate(st, row, i) ==
    IF i > Rows(st.matrix) THEN st
    ELSE IF i # row /\ Gt(Abs(st.matrix[i][st.lead]), TOL)
         THEN GJEliminate(
                  Push(AssignClean(st, addRows(st.matrix, i, row,
                                               Neg(st.matrix[i][st.lead]))),
                       IF i < row THEN "Eliminate above the pivot"
                                  ELSE "Eliminate below the pivot",
                       <<row, i>>, "add"),
                  row, i + 1)
         ELSE GJEliminate(st, row, i + 1)

\* Swap, scale, eliminate, lead++ for the pivot the search found at f.
GJReduce(st, row, f) ==
    [GJEliminate(GJScale(GJSwap([st EXCEPT !.lead = f.lead], row, f.pivotRow), row),
                 row, 1)
        EXCEPT !.lead = @ + 1]

\* The main loop: for (row = 0; row < n; row++), with its two breaks.
RECURSIVE GJRows(_, _)
GJAfterSearch(st, row, f) ==
    IF f.lead = Cols(st.matrix) + 1
    THEN [st EXCEPT !.lead = f.lead]
    ELSE GJRows(GJReduce(st, row, f), row + 1)

GJRow(st, row) == GJAfterSearch(st, row, GJFindPivot(st.matrix, row, row, st.lead))

GJRows(st, row) ==
    IF row > Rows(st.matrix) \/ st.lead >= Cols(st.matrix) + 1 THEN st
    ELSE GJRow(Push(st, "Working on Row", <<row>>, ""), row)

\* The extraction of gaussJordan without its test m === n + 1.
GJExtractSolutionAlways(st) ==
    Push([st EXCEPT !.solution =
             Array([i \in 1..Rows(st.matrix) |->
                       cleanNumber(st.matrix[i][Cols(st.matrix)])])],
         "Solution Summary", <<>>, "")

\* Extract solution: solution.push(cleanNumber(matrix[i][m - 1])) for every row.
GJExtractSolution(st) ==
    IF Cols(st.matrix) = Rows(st.matrix) + 1
    THEN Push([st EXCEPT !.solution =
                  Array([i \in 1..Rows(st.matrix) |->
                            cleanNumber(st.matrix[i][Cols(st.matrix)])])],
              "Solution Summary", <<>>, "")
    ELSE st

gaussJordanFrom(inputMatrix, alloc) ==
    SolutionOf(GJExtractSolution(
        Push(GJRows(Push(Start(inputMatrix, alloc), "Initial Matrix", <<>>, ""), 1),
             "RREF Achieved", <<>>, "")))

gaussJordan(inputMatrix) == gaussJordanFrom(inputMatrix, InputRef)

\* ----------------------------------------------------- calculateDeterminant
\* The pivot search: a later row wins only when strictly larger in magnitude.
RECURSIVE DetPivotRow(_, _, _, _)
DetPivotRow(M, col, row, pivotRow) ==
    IF row > Rows(M) THEN pivotRow
    ELSE IF Gt(Abs(M[row][col]), Abs(M[pivotRow][col]))
         THEN DetPivotRow(M, col, row + 1, row)
         ELSE DetPivotRow(M, col, row + 1, pivotRow)

\* Swap rows if needed: swapCount++, determinant *= -1.
DetSwap(st, col, pivotRow) ==
    IF pivotRow # col
    THEN Push([Assign(st, swapRows(st.matrix, col, pivotRow))
                  EXCEPT !.swapCount = @ + 1, !.determinant = Mul(@, Int2Num(-1))],
              "Swap Row", <<col, pivotRow>>, "swap")
    ELSE st

\* determinant *= pivot, and the "Pivot element" step.
DetMultiply(st, col) ==
    Push([st EXCEPT !.determinant = Mul(@, st.matrix[col][col])],
         "Pivot element", <<col>>, "")

\* The elimination below the pivot with each row addition negating the running
\* determinant, as a row swap does.
RECURSIVE DetEliminateNegating(_, _, _, _)
DetEliminateNegating(st, col, row, pivot) ==
    IF row > Rows(st.matrix) THEN st
    ELSE IF Gt(Abs(Div(st.matrix[row][col], pivot)), TOL)
         THEN DetEliminateNegating(
                  Push([AssignClean(st, addRows(st.matrix, row, col,
                                                Neg(Div(st.matrix[row][col], pivot))))
                           EXCEPT !.determinant = Neg(@)],
                       "Eliminate below pivot", <<col, row>>, ""),
                  col, row + 1, pivot)
         ELSE DetEliminateNegating(st, col, row + 1, pivot)

\* Eliminate below the pivot: factor = matrix[row][col] / pivot.
RECURSIVE DetEliminate(_, _, _, _)
DetEliminate(st, col, row, pivot) ==
    IF row > Rows(st.matrix) THEN st
    ELSE IF Gt(Abs(Div(st.matrix[row][col], pivot)), TOL)
         THEN DetEliminate(
                  Push(AssignClean(st, addRows(st.matrix, row, col,
                                               Neg(Div(st.matrix[row][col], pivot)))),
                       "Eliminate below pivot", <<col, row>>, ""),
                  col, row + 1, pivot)
         ELSE DetEliminate(st, col, row + 1, pivot)

DetEliminateBelow(st, col) == DetEliminate(st, col, col + 1, st.matrix[col][col])

\* The column loop: for (col = 0; col < n; col++), left by the return of the
\* zero-pivot branch.
RECURSIVE DetColumns(_, _)
DetReduce(st, col, pivotRow) ==
    IF Lt(Abs(st.matrix[pivotRow][col]), TOL)
    THEN [Push(st, "Determinant is ZERO", <<col>>, "") EXCEPT !.returned = TRUE]
    ELSE DetColumns(DetEliminateBelow(DetMultiply(DetSwap(st, col, pivotRow), col), col),
                    col + 1)

DetColumn(st, col) == DetReduce(st, col, DetPivotRow(st.matrix, col, col + 1, col))

DetColumns(st, col) ==
    IF col > Rows(st.matrix) THEN st
    ELSE DetColumn(Push(st, "Working on Column", <<col>>, ""), col)

\* The variables of calculateDeterminant on leaving the column loop (before
\* determinant = cleanNumber(determinant)).
DetAfterLoop(inputMatrix) ==
    DetColumns(Push(Start(inputMatrix, InputRef), "Initial Matrix", <<>>, ""), 1)

\* The validation branch with the non-square matrix taken for a singular one.
DetNotSquareAsZero(st) ==
    [steps |-> st.steps, alloc |-> st.alloc, input |-> st.inputMatrix,
     result |-> [finalMatrix |-> st.matrix, ref |-> st.mref,
                 solution |-> Absent, determinant |-> <<Zero>>]]

\* What calculateDeterminant returns: from the validation branch (NaN), from
\* the zero-pivot branch (0), or at the end (the cleaned product).
DetNotSquare(st) ==
    [steps |-> st.steps, alloc |-> st.alloc, input |-> st.inputMatrix,
     result |-> [finalMatrix |-> st.matrix, ref |-> st.mref,
                 solution |-> Absent, determinant |-> <<NaN>>]]

\* The end of calculateDeterminant with the "Final Result" step pushed after
\* the zero-pivot branch as well.
DetResultAlwaysFinal(st) ==
    [steps |-> Append(st.steps, Step("Final Result", copyMatrix(st.matrix),
                                     st.alloc + 1, <<>>, "")),
     alloc |-> st.alloc + 1, input |-> st.inputMatrix,
     result |-> [finalMatrix |-> st.matrix, ref |-> st.mref,
                 solution |-> Absent,
                 determinant |-> IF st.returned THEN <<Zero>>
                                 ELSE <<cleanNumber(st.determinant)>>]]

DetResult(st) ==
    IF st.returned
    THEN [steps |-> st.steps, alloc |-> st.alloc, input |-> st.inputMatrix,
          result |-> [finalMatrix |-> st.matrix, ref |-> st.mref,
                      solution |-> Absent, determinant |-> <<Zero>>]]
    ELSE [steps |-> Append(st.steps, Step("Final Result", copyMatrix(st.matrix),
                                          st.alloc + 1, <<>>, "")),
          alloc |-> st.alloc + 1, input |-> st.inputMatrix,
          result |-> [finalMatrix |-> st.matrix, ref |-> st.mref,
                      solution |-> Absent,
                      determinant |-> <<cleanNumber(st.determinant)>>]]

DetValidate(st) ==
    IF Rows(st.matrix) # Len(st.matrix[1])
    THEN DetNotSquare(Push(st, "Error: Determinant only exists for square matrices",
                           <<>>, ""))
    ELSE DetResult(DetColumns(Push(st, "Initial Matrix", <<>>, ""), 1))

calculateDeterminantFrom(inputMatrix, alloc) == DetValidate(Start(inputMatrix, alloc))

calculateDeterminant(inputMatrix) == calculateDeterminantFrom(inputMatrix, InputRef)

\* --------------------------------------------------------- calculateInverse
\* inputMatrix.map((row, i) => [...row, ...identity row i])
Augment(inputMatrix) ==
    Array([i \in 1..Len(inputMatrix) |->
              inputMatrix[i] \o [j \in 1..Len(inputMatrix) |-> IF i = j THEN One ELSE Zero]])

\* finalMatrix.map(row => row.slice(n))
RightColumns(M, n) == Array([i \in 1..Len(M) |-> SubSeq(M[i], n + 1, Len(M[i]))])

\* The identity test reduced to the diagonal entries.
IsIdentityDiagonal(M, n) ==
    \A i \in 1..Min(n, Len(M)) : Lt(Abs(Sub(M[i][i], One)), TOL)

\* every entry of row.slice(0, n) is within 1e-10 of the identity's
IsIdentityLeft(M, n) ==
    \A i \in 1..Len(M) :
        \A j \in 1..Min(n, Len(M[i])) :
            Lt(Abs(Sub(M[i][j], IF i = j THEN One ELSE Zero)), TOL)

\* The verdict on the reduced augmented matrix: the singular branch pushes and
\* returns result.result.finalMatrix itself, the other branch the sliced inverse.
InverseVerdict(setup, result, n) ==
    IF ~IsIdentityLeft(result.result.finalMatrix, n)
    THEN [steps |-> <<setup>> \o result.steps \o
                    <<Step("Matrix is NOT INVERTIBLE", result.result.finalMatrix,
                           result.result.ref, <<>>, "")>>,
          alloc |-> result.alloc + 1,
          result |-> [finalMatrix |-> result.result.finalMatrix,
                      ref |-> result.result.ref,
                      solution |-> Absent, determinant |-> Absent]]
    ELSE [steps |-> <<setup>> \o result.steps \o
                    <<Step("Inverse Matrix Found",
                           RightColumns(result.result.finalMatrix, n),
                           result.alloc + 1, <<>>, "")>>,
          alloc |-> result.alloc + 1,
          result |-> [finalMatrix |-> RightColumns(result.result.finalMatrix, n),
                      ref |-> result.alloc + 1,
                      solution |-> Absent, determinant |-> Absent]]

\* Steps 1 and 2: augmented takes ref alloc + 1, its snapshot alloc + 2.
InverseOfSquare(augmented, n, alloc) ==
    InverseVerdict(Step("Create Augmented Matrix", copyMatrix(augmented),
                        alloc + 2, <<>>, ""),
                   gaussJordanFrom(augmented, alloc + 2), n)

\* calculateInverse reads inputMatrix (map, spread) and hands gaussJordan the
\* augmented array it built: the argument's array keeps its content.
InverseOfInput(r, inputMatrix) ==
    [steps |-> r.steps, alloc |-> r.alloc, input |-> inputMatrix, result |-> r.result]

\* calculateInverse without its validation: every input is augmented and reduced.
calculateInverseUnvalidated(inputMatrix, inputRef, alloc) ==
    InverseOfInput(InverseOfSquare(Augment(inputMatrix), Len(inputMatrix), alloc),
                   inputMatrix)

\* inputRef is the ref of the caller's matrix, which the non-square branch
\* returns as finalMatrix without copying.
calculateInverseFrom(inputMatrix, inputRef, alloc) ==
    IF Len(inputMatrix) # Len(inputMatrix[1])
    THEN [steps |-> <<Step("Error: Only square matrices have inverses",
                           copyMatrix(inputMatrix), alloc + 1, <<>>, "")>>,
          alloc |-> alloc + 1, input |-> inputMatrix,
          result |-> [finalMatrix |-> inputMatrix, ref |-> inputRef,
                      solution |-> Absent, determinant |-> Absent]]
    ELSE InverseOfInput(InverseOfSquare(Augment(inputMatrix), Len(inputMatrix), alloc),
                        inputMatrix)

calculateInverse(inputMatrix) == calculateInverseFrom(inputMatrix, InputRef, InputRef)

\* ------------------------------------------------------------ generateSteps
\* The operation names a caller passes (the dispatcher lower-cases them).
OperationNames ==
    {"gaussian elimination", "gaussian-elimination", "Gaussian-Elimination",
     "gauss-jordan", "rref", "RREF", "determinant", "Determinant",
     "inverse", "INVERSE", "transpose", "rank"}

\* The name as passed, letter case kept.
sameCase(operation) == operation

\* String.prototype.toLowerCase on OperationNames.
toLowerCase(operation) ==
    CASE operation = "Gaussian-Elimination" -> "gaussian-elimination"
      [] operation = "RREF" -> "rref"
      [] operation = "Determinant" -> "determinant"
      [] operation = "INVERSE" -> "inverse"
      [] OTHER -> operation

\* The switch of generateSteps: the engine call of the branch taken, or for the
\* default branch one step whose matrix is the argument itself.
Dispatch(matrix, name) ==
    CASE name \in {"gaussian elimination", "gaussian-elimination"} ->
            gaussianElimination(matrix)
      [] name \in {"gauss-jordan", "rref"} -> gaussJordan(matrix)
      [] name = "determinant" -> calculateDeterminant(matrix)
      [] name = "inverse" -> calculateInverse(matrix)
      [] OTHER -> [steps |-> <<Step("Operation not yet implemented", matrix,
                                    InputRef, <<>>, "")>>,
                   input |-> matrix]

generateSteps(matrix, operation) == Dispatch(matrix, toLowerCase(operation)).steps

\* ------------------------------------------------------------------ inputs
\* All n x m matrices with entries in S.
Matrices(n, m, S) == [1..n -> [1..m -> S]]

\* Entries: small integers, the tolerance itself and a value below it.
IntVals == {Int2Num(k) : k \in -1..MaxInt}
HalfTol == <<1, 2 * TolDen>>
SmallVals == IntVals \cup {TOL, HalfTol}
MidVals == {Int2Num(k) : k \in 0..MaxInt} \cup {TOL}
SignVals == {Int2Num(-1), Zero, One}
BitVals == {Zero, One}

\* 3 x 3 matrices with first column all ones, first row (1, 0, 0) and the
\* other four entries in SmallVals.
NearTol3 ==
    {<<<<One, Zero, Zero>>, <<One, a, b>>, <<One, c, d>>>> : a, b, c, d \in SmallVals}

\* The worked examples: a 2 x 3 system and a 2 x 2 determinant.
ExampleSystem == <<<<Int2Num(1), Int2Num(2), Int2Num(4)>>,
                   <<Int2Num(3), Int2Num(4), Int2Num(10)>>>>
ExampleSquare == <<<<Int2Num(2), Int2Num(1)>>, <<Int2Num(1), Int2Num(3)>>>>

\* The matrices a caller passes: every shape up to 2 x 2 over SmallVals,
\* 2 x 3 over MidVals, 3 x 2 over SignVals, 3 x 3 and 3 x 4 over BitVals,
\* NearTol3 and the worked examples.
Inputs ==
    {ExampleSystem, ExampleSquare} \cup
    Matrices(1, 1, SmallVals) \cup Matrices(1, 2, SmallVals) \cup
    Matrices(2, 1, SmallVals) \cup Matrices(2, 2, SmallVals) \cup
    Matrices(2, 3, MidVals) \cup Matrices(3, 2, SignVals) \cup
    Matrices(3, 3, BitVals) \cup Matrices(3, 4, BitVals) \cup NearTol3

\* The matrices of the runs that follow a call by the caller's writes.
AliasInputs ==
    Matrices(1, 1, SmallVals) \cup Matrices(1, 2, SmallVals) \cup
    Matrices(2, 2, BitVals) \cup Matrices(2, 3, BitVals)

\* --------------------------------------------------------- the caller's view
VARIABLES
    input,     \* the caller's matrix (its storage has ref InputRef)
    phase,     \* "ready": before the call; "returned"; "written": the caller wrote
    call,      \* the function the caller invoked
    steps,     \* the trace the call returned
    result,    \* the SolutionResult the call returned
    written,   \* the holder the caller wrote to after the call
    selectedOperation,  \* App: the operation state (useState 'gaussian-elimination')
    currentStep,        \* StepVisualization: the index of the step shown
    search     \* gaussJordan taken one loop step at a time: its locals and position

vars == <<input, phase, call, steps, result, written, selectedOperation, currentStep,
          search>>

\* No result: generateSteps returns the steps only.
NoRef == -1
NoResult == [finalMatrix |-> <<>>, ref |-> NoRef, solution |-> Absent, determinant |-> Absent]
NotWritten == [holder |-> "none", k |-> 0]
NoSearch == [at |-> "idle"]

InitWith(S) ==
    /\ input \in S
    /\ phase = "ready"
    /\ call = "none"
    /\ steps = <<>>
    /\ result = NoResult
    /\ written = NotWritten
    /\ selectedOperation = "gaussian-elimination"
    /\ currentStep = 0
    /\ search = NoSearch

Init == InitWith(Inputs)

Return(name, r) ==
    /\ phase = "ready"
    /\ phase' = "returned"
    /\ call' = name
    /\ steps' = r.steps
    /\ result' = r.result
    /\ input' = r.input
    /\ UNCHANGED <<written, selectedOperation, currentStep, search>>

CallGaussianElimination == Return("gaussianElimination", gaussianElimination(input))
CallGaussJordan == Return("gaussJordan", gaussJordan(input))
CallCalculateDeterminant == Return("calculateDeterminant", calculateDeterminant(input))
CallCalculateInverse == Return("calculateInverse", calculateInverse(input))

\* generateSteps returns the steps alone; the record of the call keeps the
\* operation name the caller passed.
NamedCall(operation) ==
    [finalMatrix |-> <<>>, ref |-> NoRef, solution |-> Absent, determinant |-> Absent,
     operation |-> operation]

CallGenerateSteps(operation) ==
    Return("generateSteps",
           [steps |-> generateSteps(input, operation),
            input |-> Dispatch(input, toLowerCase(operation)).input,
            result |-> NamedCall(operation)])

Next ==
    \/ CallGaussianElimination
    \/ CallGaussJordan
    \/ CallCalculateDeterminant
    \/ CallCalculateInverse

Spec == Init /\ [][Next]_vars

\* ------------------------------------------------ the caller writes afterwards
\* After the call the caller owns its input, result.finalMatrix and every
\* step's matrix, and may assign to an entry of any of them.  An assignment
\* m[0][0] = v changes the row array m[0], hence every holder of that array.
Poison == <<7, 1>>
WriteTo(M) == [M EXCEPT ![1][1] = Poison]

Write(ref, holder, k) ==
    /\ phase = "returned"
    /\ phase' = "written"
    /\ written' = [holder |-> holder, k |-> k]
    /\ input' = IF InputRef = ref THEN WriteTo(input) ELSE input
    /\ steps' = [i \in 1..Len(steps) |->
                    IF steps[i].ref = ref
                    THEN [steps[i] EXCEPT !.matrix = WriteTo(@)]
                    ELSE steps[i]]
    /\ result' = IF result.ref = ref
                 THEN [result EXCEPT !.finalMatrix = WriteTo(@)]
                 ELSE result
    /\ UNCHANGED <<call, selectedOperation, currentStep, search>>

WriteInput == Write(InputRef, "input", 0)
WriteFinal == result.ref # NoRef /\ Write(result.ref, "finalMatrix", 0)
WriteStep(k) == Write(steps[k].ref, "step", k)

NextAlias ==
    \/ CallGaussianElimination
    \/ CallGaussJordan
    \/ CallCalculateDeterminant
    \/ CallCalculateInverse
    \/ \E operation \in OperationNames : CallGenerateSteps(operation)
    \/ WriteInput
    \/ WriteFinal
    \/ \E k \in 1..Len(steps) : WriteStep(k)

SpecAlias == InitWith(AliasInputs) /\ [][NextAlias]_vars

\* ------------------------------------------------ the row helpers, called
\* A caller holds a matrix whose rows are the first arrays of the memory and
\* calls one of the four helpers on it; afterwards input is what the caller's
\* matrix then reads, and result keeps the memory, the matrix returned, the
\* argument as it was and the other arguments of the call.
HelperInputs ==
    Matrices(1, 2, SmallVals) \cup Matrices(2, 2, SignVals) \cup
    Matrices(3, 2, BitVals)
Scalars == {Int2Num(-1), Zero, Int2Num(MaxInt), TOL}
ArgumentRows(M) == Array([i \in 1..Len(M) |-> i])

HelperReturn(name, r, row1, row2, scalar) ==
    /\ phase = "ready"
    /\ phase' = "returned"
    /\ call' = name
    /\ input' = ValueOf(r.heap, ArgumentRows(input))
    /\ result' = [heap |-> r.heap, m |-> r.m, argument |-> input,
                  row1 |-> row1, row2 |-> row2, scalar |-> scalar]
    /\ UNCHANGED <<steps, written, selectedOperation, currentStep, search>>

CallCopyMatrix ==
    HelperReturn("copyMatrix", copyMatrixIn(input, ArgumentRows(input)), 0, 0, Zero)
CallSwapRows(row1, row2) ==
    HelperReturn("swapRows", swapRowsIn(input, ArgumentRows(input), row1, row2),
                 row1, row2, Zero)
CallMultiplyRow(row, scalar) ==
    HelperReturn("multiplyRow", multiplyRowIn(input, ArgumentRows(input), row, scalar),
                 row, 0, scalar)
CallAddRows(targetRow, sourceRow, scalar) ==
    HelperReturn("addRows",
                 addRowsIn(input, ArgumentRows(input), targetRow, sourceRow, scalar),
                 targetRow, sourceRow, scalar)

NextHelpers ==
    \/ CallCopyMatrix
    \/ \E row1, row2 \in 1..Len(input) : CallSwapRows(row1, row2)
    \/ \E row \in 1..Len(input), scalar \in Scalars : CallMultiplyRow(row, scalar)
    \/ \E targetRow, sourceRow \in 1..Len(input), scalar \in Scalars :
           CallAddRows(targetRow, sourceRow, scalar)

SpecHelpers == InitWith(HelperInputs) /\ [][NextHelpers]_vars


\* ------------------------------------------------ validateMatrix, called
\* What a caller may hand to validateMatrix: nothing, or up to MaxRows rows
\* of up to two entries each, of any lengths, the entries finite or not.
MaxRows == 2
AnyVals == {Zero, One, NaN, Infinity, Neg(Infinity)}
AnyRows == {<<>>} \cup {<<a>> : a \in AnyVals} \cup {<<a, b>> : a, b \in AnyVals}
Candidates ==
    {Missing} \cup {Given(<<>>)} \cup
    UNION {{Given(rows) : rows \in [1..n -> AnyRows]} : n \in 1..MaxRows}

\* validateMatrix returns a boolean and reads its argument only.
CallValidateMatrix ==
    Return("validateMatrix",
           [steps |-> <<>>, input |-> input,
            result |-> [returns |-> validateMatrix(input)]])

NextValidate == CallValidateMatrix

SpecValidate == InitWith(Candidates) /\ [][NextValidate]_vars

\* ------------------------------------------------------------------ the App
\* App holds steps, solution (result here) and the selected operation;
\* StepVisualization, mounted while steps is non-empty, holds currentStep
\* (from 0).  input is the matrix last handed to handleMatrixInput, call the
\* engine function that call invoked ("none" when it invoked none).
AppOperations ==
    {"gaussian-elimination", "gauss-jordan", "determinant", "inverse",
     "Determinant", "rank"}

AppInputs ==
    {Missing, Given(<<>>), Given(<<<<One, Zero>>, <<One>>>>), Given(<<<<NaN>>>>),
     Given(<<<<Zero>>>>), Given(<<<<One, Int2Num(2)>>>>),
     Given(ExampleSquare), Given(ExampleSystem)}

\* handleMatrixInput returns early on the validation alone.
RefusedWhenInvalid(matrix, operation) == ~validateMatrix(matrix)

\* The two early returns of handleMatrixInput (each after an alert).
Refused(matrix, operation) ==
    \/ ~validateMatrix(matrix)
    \/ /\ (operation = "determinant" \/ operation = "inverse")
       /\ ~isSquareMatrix(matrix.rows)

\* The switch of handleMatrixInput on operation.toLowerCase(): the engine
\* function called and what it returned, or the "not implemented" result.
Solve(inputMatrix, name) ==
    CASE name \in {"gaussian elimination", "gaussian-elimination"} ->
            [call |-> "gaussianElimination", r |-> gaussianElimination(inputMatrix)]
      [] name \in {"gauss-jordan", "rref"} ->
            [call |-> "gaussJordan", r |-> gaussJordan(inputMatrix)]
      [] name = "determinant" ->
            [call |-> "calculateDeterminant", r |-> calculateDeterminant(inputMatrix)]
      [] name = "inverse" ->
            [call |-> "calculateInverse", r |-> calculateInverse(inputMatrix)]
      [] OTHER ->
            [call |-> "none",
             r |-> [steps |-> <<Step("Operation not implemented", inputMatrix,
                                     InputRef, <<>>, "")>>,
                    input |-> inputMatrix,
                    result |-> [finalMatrix |-> inputMatrix, ref |-> InputRef,
                                solution |-> Absent, determinant |-> Absent]]]

\* setSteps(result.steps); setSolution(result.result)
SetStepsAndSolution(solved) ==
    /\ phase' = "returned"
    /\ call' = solved.call
    /\ steps' = solved.r.steps
    /\ result' = solved.r.result
    /\ input' = Given(solved.r.input)

HandleMatrixInput(inputMatrix) ==
    /\ IF Refused(inputMatrix, selectedOperation)
       THEN /\ phase' = "alerted"
            /\ call' = "none"
            /\ input' = inputMatrix
            /\ UNCHANGED <<steps, result>>
       ELSE SetStepsAndSolution(Solve(inputMatrix.rows, toLowerCase(selectedOperation)))
    /\ UNCHANGED <<written, selectedOperation, currentStep, search>>

\* onOperationChange={setOperation}
SelectOperation(operation) ==
    /\ operation # selectedOperation
    /\ selectedOperation' = operation
    /\ UNCHANGED <<input, phase, call, steps, result, written, currentStep, search>>

\* StepVisualization renders its buttons and list unless steps is empty or
\* steps[currentStep] is undefined.
Rendered == Len(steps) > 0 /\ currentStep < Len(steps)

SetCurrentStep(index) ==
    /\ Rendered
    /\ currentStep' = index
    /\ UNCHANGED <<input, phase, call, steps, result, written, selectedOperation, search>>

\* Previous (disabled at 0), Next (disabled at the last step), a click in the list.
Previous == currentStep # 0 /\ SetCurrentStep(IF currentStep - 1 > 0 THEN currentStep - 1 ELSE 0)
NextStep ==
    /\ currentStep # Len(steps) - 1
    /\ SetCurrentStep(Min(Len(steps) - 1, currentStep + 1))
ClickStep(index) == index # currentStep /\ SetCurrentStep(index)

NextApp ==
    \/ \E inputMatrix \in AppInputs : HandleMatrixInput(inputMatrix)
    \/ \E operation \in AppOperations : SelectOperation(operation)
    \/ Previous
    \/ NextStep
    \/ \E index \in 0..(Len(steps) - 1) : ClickStep(index)

InitApp ==
    /\ input = Missing
    /\ phase = "ready"
    /\ call = "none"
    /\ steps = <<>>
    /\ result = NoResult
    /\ written = NotWritten
    /\ selectedOperation = "gaussian-elimination"
    /\ currentStep = 0
    /\ search = NoSearch

SpecApp == InitApp /\ [][NextApp]_vars

\* ------------------------------------- gaussJordan, one loop step at a time
\* The main loop of gaussJordan with its pivot-search loop unrolled: search
\* holds the locals (st with the working matrix, the trace and lead; row;
\* pivotRow) and the position: "row" at the head of the for loop, "test" at
\* the while condition, "advance" in the while body, "found" after the
\* while loop left with a pivot, "exhausted" after its inner break, "done"
\* after the for loop, "threw" after a TypeError.

\* The matrices the loop is run on.
SearchInputs ==
    Matrices(1, 1, SmallVals) \cup Matrices(1, 2, SmallVals) \cup
    Matrices(2, 1, SmallVals) \cup Matrices(2, 2, SmallVals) \cup
    Matrices(2, 3, BitVals) \cup Matrices(3, 2, SignVals) \cup
    Matrices(3, 3, BitVals)

\* matrix[i][j] as JavaScript reads it: past the last row the row is
\* undefined and indexing it throws; past the last column the entry is
\* undefined and Math.abs of it is NaN.
ReadAt(M, i, j) ==
    IF i \notin 1..Rows(M) THEN [threw |-> TRUE, value |-> NaN]
    ELSE IF j \notin 1..Cols(M) THEN [threw |-> FALSE, value |-> NaN]
    ELSE [threw |-> FALSE, value |-> M[i][j]]

\* The while body without its reset at pivotRow === n: pivotRow++ only.
AdvanceDownOnly(s) == [s EXCEPT !.pivotRow = @ + 1, !.at = "test"]

\* The while body: pivotRow++; if (pivotRow === n) { pivotRow = row; lead++;
\* if (lead === m) break; }.
Advance(s) ==
    IF s.pivotRow + 1 = Rows(s.st.matrix) + 1
    THEN [s EXCEPT !.pivotRow = s.row, !.st.lead = @ + 1,
                   !.at = IF s.st.lead + 1 = Cols(s.st.matrix) + 1
                          THEN "exhausted" ELSE "test"]
    ELSE [s EXCEPT !.pivotRow = @ + 1, !.at = "test"]

\* The call: copy and clean the input, record the initial matrix, row = 0.
GJBegin ==
    /\ phase = "ready"
    /\ search.at = "idle"
    /\ search' = [st |-> Push(Start(input, InputRef), "Initial Matrix", <<>>, ""),
                  row |-> 1, pivotRow |-> 1, at |-> "row"]
    /\ UNCHANGED <<input, phase, call, steps, result, written, selectedOperation,
                   currentStep>>

\* The head of the for loop: row < n, then if (lead >= m) break; otherwise
\* the "Working on Row" step and pivotRow = row.
GJEnterRow ==
    /\ search.at = "row"
    /\ search' = IF \/ search.row > Rows(search.st.matrix)
                    \/ search.st.lead >= Cols(search.st.matrix) + 1
                 THEN [search EXCEPT !.at = "done"]
                 ELSE [search EXCEPT
                          !.st = Push(@, "Working on Row", <<search.row>>, ""),
                          !.pivotRow = search.row, !.at = "test"]
    /\ UNCHANGED <<input, phase, call, steps, result, written, selectedOperation,
                   currentStep>>

\* The while condition: Math.abs(matrix[pivotRow][lead]) < 1e-10.
GJTest ==
    /\ search.at = "test"
    /\ LET read == ReadAt(search.st.matrix, search.pivotRow, search.st.lead)
       IN search' = [search EXCEPT
                        !.at = IF read.threw THEN "threw"
                               ELSE IF Lt(Abs(read.value), TOL) THEN "advance"
                               ELSE "found"]
    /\ UNCHANGED <<input, phase, call, steps, result, written, selectedOperation,
                   currentStep>>

GJAdvance ==
    /\ search.at = "advance"
    /\ search' = Advance(search)
    /\ UNCHANGED <<input, phase, call, steps, result, written, selectedOperation,
                   currentStep>>

\* if (lead === m) break; after the while loop.
GJExhausted ==
    /\ search.at = "exhausted"
    /\ search' = [search EXCEPT !.at = "done"]
    /\ UNCHANGED <<input, phase, call, steps, result, written, selectedOperation,
                   currentStep>>

\* The rest of the for body (swap, scale, eliminate, lead++) and row++.
GJFound ==
    /\ search.at = "found"
    /\ search' = [search EXCEPT
                     !.st = GJReduce(@, search.row,
                                     [pivotRow |-> search.pivotRow, lead |-> @.lead]),
                     !.row = @ + 1, !.at = "row"]
    /\ UNCHANGED <<input, phase, call, steps, result, written, selectedOperation,
                   currentStep>>

\* After the loop: the "RREF Achieved" step, the solution, the return.
GJFinish ==
    /\ search.at = "done"
    /\ Return("gaussJordan",
              SolutionOf(GJExtractSolution(
                  Push(search.st, "RREF Achieved", <<>>, ""))))

NextSearch ==
    \/ GJBegin
    \/ GJEnterRow
    \/ GJTest
    \/ GJAdvance
    \/ GJExhausted
    \/ GJFound
    \/ GJFinish

SpecSearch == InitWith(SearchInputs) /\ [][NextSearch]_vars

\* ------------------------------------------------------------- properties
\* What the properties below speak of: the call that returned, closeness
\* within the tolerance, and exact linear algebra on small matrices.
Returned(name) == phase = "returned" /\ call = name

\* x and y differ by no more than the tolerance.
Near(x, y) == ~Gt(Abs(Sub(x, y)), TOL)

\* The column of a row's leading nonzero entry; Len(row) + 1 for a zero row.
LeadCol(row) ==
    IF \A j \in 1..Len(row) : row[j] = Zero THEN Len(row) + 1
    ELSE CHOOSE j \in 1..Len(row) : row[j] # Zero /\ \A k \in 1..(j - 1) : row[k] = Zero

IsEchelon(M) ==
    \A i \in 2..Rows(M) :
        LeadCol(M[i]) = Cols(M) + 1 \/ LeadCol(M[i]) > LeadCol(M[i - 1])

\* The sum of row[k] * col[k] for k in 1..n.
RECURSIVE Dot(_, _, _)
Dot(row, col, n) ==
    IF n = 0 THEN Zero ELSE Add(Dot(row, col, n - 1), Mul(row[n], col[n]))

Column(M, j) == [i \in 1..Rows(M) |-> M[i][j]]

\* The left n columns of M.
LeftColumns(M, n) == [i \in 1..Rows(M) |-> SubSeq(M[i], 1, n)]

Det2(a, b, c, d) == Sub(Mul(a, d), Mul(b, c))

\* The exact determinant of a square matrix of order at most 3.
ExactDet(A) ==
    CASE Rows(A) = 1 -> A[1][1]
      [] Rows(A) = 2 -> Det2(A[1][1], A[1][2], A[2][1], A[2][2])
      [] Rows(A) = 3 ->
            Add(Sub(Mul(A[1][1], Det2(A[2][2], A[2][3], A[3][2], A[3][3])),
                    Mul(A[1][2], Det2(A[2][1], A[2][3], A[3][1], A[3][3]))),
                Mul(A[1][3], Det2(A[2][1], A[2][2], A[3][1], A[3][2])))

\* A is invertible once its sub-tolerance entries are read as zero.
Invertible(A) == ExactDet(cleanMatrix(A)) # Zero

\* (constant_i - sum over j > i of a_ij * x_j), summed for j ascending from k.
RECURSIVE Remainder(_, _, _, _)
Remainder(M, x, i, k) ==
    IF k = i THEN M[i][Cols(M)]
    ELSE Sub(Remainder(M, x, i, k - 1), Mul(M[i][k], x[k]))

\* C1: for an n x (n+1) input, gaussianElimination returns one solution entry
\* per variable, in variable order, and each entry is
\* x_i = (finalMatrix[i][n] - sum over j > i of finalMatrix[i][j] * x_j) / finalMatrix[i][i]
\* (cleaned by the tolerance), with x_j the returned value of variable j.
C1_BackSubstitutionFormula ==
    (Returned("gaussianElimination") /\ isAugmentedMatrix(input)) =>
        /\ Len(result.solution) = Rows(input)
        /\ \A i \in 1..Rows(input) :
              result.solution[i] =
                  cleanNumber(Div(Remainder(result.finalMatrix, result.solution,
                                            i, Rows(input)),
                                  result.finalMatrix[i][i]))

\* C2: the finalMatrix of gaussianElimination is in row echelon shape: every
\* row below the first is all zero or leads strictly to the right of the row
\* above.
C2_RowEchelonShape ==
    Returned("gaussianElimination") => IsEchelon(result.finalMatrix)

\* C3: in the finalMatrix of gaussJordan every pivot column (the column of a
\* row's leading nonzero entry) holds exactly one nonzero entry, the pivot,
\* and the pivot is 1 (within the tolerance).
C3_PivotColumnsReduced ==
    Returned("gaussJordan") =>
        \A i \in 1..Rows(result.finalMatrix) :
            LeadCol(result.finalMatrix[i]) <= Cols(result.finalMatrix) =>
                /\ Near(result.finalMatrix[i][LeadCol(result.finalMatrix[i])], One)
                /\ \A k \in 1..Rows(result.finalMatrix) :
                      k # i => result.finalMatrix[k][LeadCol(result.finalMatrix[i])] = Zero

\* C4: for an n x (n+1) input [A|b] with A invertible, gaussJordan returns
\* finalMatrix = [I|x] and solution = x, the last column, with A*x = b within
\* the tolerance; the worked example gives [[1,0,2],[0,1,1]] and [2,1].
C4_SolvesAugmentedSystem ==
    (Returned("gaussJordan") /\ isAugmentedMatrix(input)
        /\ Invertible(LeftColumns(input, Rows(input)))) =>
        /\ \A i, j \in 1..Rows(input) :
              result.finalMatrix[i][j] = IF i = j THEN One ELSE Zero
        /\ Len(result.solution) = Rows(input)
        /\ \A i \in 1..Rows(input) :
              /\ result.solution[i] = result.finalMatrix[i][Cols(input)]
              /\ Near(Dot(input[i], result.solution, Rows(input)), input[i][Cols(input)])
        /\ input = ExampleSystem =>
              /\ result.finalMatrix = <<<<One, Zero, Int2Num(2)>>, <<Zero, One, One>>>>
              /\ result.solution = <<Int2Num(2), One>>

\* C5: for a 2 x 2 input [[a,b],[c,d]] calculateDeterminant returns a*d - b*c
\* within the tolerance (0 when that value is below the tolerance); the worked
\* example gives 5.
C5_Determinant2x2 ==
    (Returned("calculateDeterminant") /\ Rows(input) = 2 /\ Cols(input) = 2) =>
        /\ Len(result.determinant) = 1
        /\ \/ result.determinant[1] = cleanNumber(ExactDet(cleanMatrix(input)))
           \/ Near(result.determinant[1], ExactDet(cleanMatrix(input)))
        /\ input = ExampleSquare => result.determinant[1] = Int2Num(5)

\* C6: for a square matrix with nonzero determinant, exchanging any two rows
\* before calculateDeterminant negates the determinant (within the tolerance).
C6_RowSwapNegates ==
    (Returned("calculateDeterminant") /\ isSquareMatrix(input)
        /\ result.determinant[1] # Zero) =>
        \A i, j \in 1..Rows(input) :
            i < j => Near(calculateDeterminant(swapRows(input, i, j)).result.determinant[1],
                          Neg(result.determinant[1]))

\* The round-trip tolerance 1e-8: a hundred times the tolerance.
TOL8 == Norm(100, TolDen)

\* C7: for an invertible square matrix A, the finalMatrix B of calculateInverse
\* is n x n and every entry of A*B is within 1e-8 of the identity's.
C7_InverseRoundTrip ==
    (Returned("calculateInverse") /\ isSquareMatrix(input) /\ Invertible(input)) =>
        /\ Rows(result.finalMatrix) = Rows(input)
        /\ \A i \in 1..Rows(input) : Len(result.finalMatrix[i]) = Rows(input)
        /\ \A i, j \in 1..Rows(input) :
              Lt(Abs(Sub(Dot(input[i], Column(result.finalMatrix, j), Rows(input)),
                         IF i = j THEN One ELSE Zero)),
                 TOL8)

\* C8: for a square matrix, calculateInverse ends with the "NOT INVERTIBLE"
\* step when calculateDeterminant returns 0, and with the "Inverse Matrix
\* Found" step when calculateDeterminant returns a nonzero value.
C8_SingularityAgreement ==
    (Returned("calculateInverse") /\ isSquareMatrix(input)) =>
        steps[Len(steps)].description =
            IF calculateDeterminant(input).result.determinant[1] = Zero
            THEN "Matrix is NOT INVERTIBLE"
            ELSE "Inverse Matrix Found"

\* C9: gaussJordan applied to the finalMatrix of gaussJordan returns that
\* matrix again (within the tolerance), and its trace has no step with an
\* operation tag.
C9_GaussJordanIdempotent ==
    Returned("gaussJordan") =>
        /\ \A i \in 1..Rows(input) : \A j \in 1..Cols(input) :
              Near(gaussJordan(result.finalMatrix).result.finalMatrix[i][j],
                   result.finalMatrix[i][j])
        /\ \A k \in 1..Len(gaussJordan(result.finalMatrix).steps) :
              gaussJordan(result.finalMatrix).steps[k].operation = ""

\* C10: every step's matrix is an independent copy: a write by the caller to
\* its input, to result.finalMatrix or to one step's matrix after the call
\* leaves the matrix of every other step unchanged.
C10_StepsIndependent ==
    [][(phase = "returned" /\ phase' = "written") =>
          \A k \in 1..Len(steps) :
              \/ written'.holder = "step" /\ written'.k = k
              \/ steps'[k].matrix = steps[k].matrix]_vars


\* C11: a call of gaussianElimination, gaussJordan, calculateDeterminant or
\* calculateInverse leaves every entry of the caller's input matrix as it was,
\* on the success paths and on the failure paths.
C11_InputUnchanged ==
    [][(phase = "ready" /\ phase' = "returned") => input' = input]_vars

\* A failure path has returned: calculateInverse on a non-square matrix, which
\* hands the caller's own array back as finalMatrix.
C11_Witness ==
    /\ Returned("calculateInverse")
    /\ ~isSquareMatrix(input)
    /\ result.ref = InputRef
    /\ result.finalMatrix = input


\* What a helper call must have put at row i, column j of the matrix it
\* returned, from the argument A as it was before the call.
RowEffect(name, A, row1, row2, scalar, i, j) ==
    CASE name = "swapRows" /\ i = row1 -> A[row2][j]
      [] name = "swapRows" /\ i = row2 /\ i # row1 -> A[row1][j]
      [] name = "multiplyRow" /\ i = row1 -> Mul(A[i][j], scalar)
      [] name = "addRows" /\ i = row1 -> Add(A[i][j], Mul(scalar, A[row2][j]))
      [] OTHER -> A[i][j]

\* C12: after copyMatrix, swapRows, multiplyRow or addRows returns, for any
\* in-range rows (equal ones included), the argument reads as before, no row
\* of the matrix returned is a row array of the argument, and the matrix
\* returned has rows row1 and row2 exchanged, respectively row multiplied by
\* the scalar, respectively scalar times the source row added to the target
\* row, and every other row equal to the argument's.
C12_HelpersReturnNewMatrix ==
    phase = "returned" =>
        /\ input = result.argument
        /\ \A i \in 1..Len(result.m) : result.m[i] \notin 1..Len(result.argument)
        /\ Len(result.m) = Len(result.argument)
        /\ \A i \in 1..Len(result.m) :
               /\ Len(result.heap[result.m[i]]) = Len(result.argument[i])
               /\ \A j \in 1..Len(result.argument[i]) :
                      result.heap[result.m[i]][j] =
                          RowEffect(call, result.argument, result.row1,
                                    result.row2, result.scalar, i, j)

C12_Witness ==
    /\ Returned("addRows")
    /\ result.row1 = result.row2
    /\ result.scalar = Int2Num(-1)
    /\ result.argument[result.row1] # ValueOf(result.heap, result.m)[result.row1]
    /\ input = result.argument

\* The tags of the three row operations.
RowOperations == {"swap", "multiply", "add"}

\* C13: calculateDeterminant on a matrix whose row count differs from its
\* column count returns exactly one step, the "only exists for square
\* matrices" error step, and the determinant NaN, and has done no row
\* operation: the step and finalMatrix hold the cleaned input.
C13_NonSquareDeterminant ==
    (Returned("calculateDeterminant") /\ ~isSquareMatrix(input)) =>
        /\ Len(steps) = 1
        /\ steps[1].description = "Error: Determinant only exists for square matrices"
        /\ steps[1].operation \notin RowOperations
        /\ steps[1].matrix = cleanMatrix(input)
        /\ result.finalMatrix = cleanMatrix(input)
        /\ result.determinant # Absent
        /\ IsNaN(result.determinant[1])

C13_Witness ==
    /\ Returned("calculateDeterminant")
    /\ Rows(input) = 3
    /\ Cols(input) = 2
    /\ Len(steps) = 1
    /\ result.determinant = <<NaN>>

\* C14: calculateInverse on a non-square matrix returns exactly one step, the
\* "only square matrices have inverses" error step (so no step of a
\* Gauss-Jordan run), and a result whose finalMatrix has the entries of the
\* input as given and which has neither a solution nor a determinant.
C14_NonSquareInverse ==
    (Returned("calculateInverse") /\ ~isSquareMatrix(input)) =>
        /\ Len(steps) = 1
        /\ steps[1].description = "Error: Only square matrices have inverses"
        /\ steps[1].operation \notin RowOperations
        /\ result.finalMatrix = input
        /\ result.solution = Absent
        /\ result.determinant = Absent

C14_Witness ==
    /\ Returned("calculateInverse")
    /\ Rows(input) = 1
    /\ Cols(input) = 2
    /\ input[1][1] = HalfTol
    /\ result.finalMatrix = input
    /\ Len(steps) = 1

\* Every entry of column col of M from row col down is below the tolerance
\* in magnitude, that is, the largest of them is.
ColumnBelowTolerance(M, col) == \A row \in col..Rows(M) : Lt(Abs(M[row][col]), TOL)

\* C15: in calculateDeterminant on a square matrix, when the column begun at
\* step k has, from its diagonal row down, only entries below the tolerance,
\* the next step is the "Determinant is ZERO" step and it is the last one
\* (no later column, no "Final Result" step), the determinant returned is
\* exactly 0 and finalMatrix is the matrix of that moment.
C15_ZeroPivotShortCircuit ==
    (Returned("calculateDeterminant") /\ isSquareMatrix(input)) =>
        \A k \in 1..Len(steps) :
            (/\ steps[k].description = "Working on Column"
             /\ ColumnBelowTolerance(steps[k].matrix, steps[k].highlightedRows[1])) =>
                /\ Len(steps) = k + 1
                /\ steps[k + 1].description = "Determinant is ZERO"
                /\ steps[k + 1].matrix = steps[k].matrix
                /\ result.finalMatrix = steps[k].matrix
                /\ result.determinant = <<Zero>>

C15_Witness ==
    /\ Returned("calculateDeterminant")
    /\ Rows(input) = 3
    /\ Cols(input) = 3
    /\ steps[Len(steps)].description = "Determinant is ZERO"
    /\ steps[Len(steps)].highlightedRows = <<2>>
    /\ result.determinant = <<Zero>>
    /\ \E k \in 1..Len(steps) : steps[k].description = "Eliminate below pivot"

\* C16: calculateInverse on a singular n x n matrix ends its trace with the
\* "not invertible" step and returns as finalMatrix the reduced left half of
\* the augmented matrix: n rows of n columns, not the identity.
C16_SingularInverseLeftHalf ==
    (Returned("calculateInverse") /\ isSquareMatrix(input) /\ ~Invertible(input)) =>
        /\ steps[Len(steps)].description = "Matrix is NOT INVERTIBLE"
        /\ Rows(result.finalMatrix) = Rows(input)
        /\ Cols(result.finalMatrix) = Rows(input)
        /\ ~IsIdentityLeft(result.finalMatrix, Rows(input))

\* C17: for an n x m input, the result of gaussianElimination and of
\* gaussJordan has a solution exactly when m = n + 1, then of n entries, and
\* no determinant; the result of calculateDeterminant has a determinant and no
\* solution; the result of calculateInverse has neither (for a 1 x 1 input
\* too, whose augmented matrix is 1 x 2).
C17_OptionalFields ==
    /\ (Returned("gaussianElimination") \/ Returned("gaussJordan")) =>
           /\ (result.solution # Absent) <=> (Cols(input) = Rows(input) + 1)
           /\ (result.solution # Absent) => (Len(result.solution) = Rows(input))
           /\ result.determinant = Absent
    /\ Returned("calculateDeterminant") =>
           /\ Len(result.determinant) = 1
           /\ result.solution = Absent
    /\ Returned("calculateInverse") =>
           /\ result.solution = Absent
           /\ result.determinant = Absent

C17_Witness ==
    /\ Returned("calculateInverse")
    /\ Rows(input) = 1
    /\ Cols(input) = 1
    /\ \E k \in 1..Len(steps) : steps[k].description = "Solution Summary"
    /\ result.solution = Absent

\* x is exactly 0 or has magnitude at least the tolerance.
IsClean(x) == x = Zero \/ ~Lt(Abs(x), TOL)
AllClean(M) == \A i \in 1..Len(M) : \A j \in 1..Len(M[i]) : IsClean(M[i][j])

\* C18: after gaussianElimination, gaussJordan, calculateDeterminant or
\* calculateInverse returns, on any input (entries below the tolerance
\* included), every entry of every step's matrix and of result.finalMatrix is
\* exactly 0 or has magnitude at least the tolerance.
C18_StoredEntriesClean ==
    phase = "returned" =>
        /\ \A k \in 1..Len(steps) : AllClean(steps[k].matrix)
        /\ AllClean(result.finalMatrix)

\* The spellings of OperationNames that name each operation when letter case
\* is ignored.
GaussianSpellings == {"gaussian elimination", "gaussian-elimination", "Gaussian-Elimination"}
GaussJordanSpellings == {"gauss-jordan", "rref", "RREF"}
DeterminantSpellings == {"determinant", "Determinant"}
InverseSpellings == {"inverse", "INVERSE"}

\* C19: generateSteps(M, name) reads the name without regard to letter case
\* and returns exactly the steps of gaussianElimination(M), gaussJordan(M),
\* calculateDeterminant(M) or calculateInverse(M) for the names of these
\* operations; for any other name it returns one placeholder step whose
\* matrix is M itself, with no step of an engine function.
C19_GenerateStepsDispatch ==
    Returned("generateSteps") =>
        CASE result.operation \in GaussianSpellings ->
                steps = gaussianElimination(input).steps
          [] result.operation \in GaussJordanSpellings ->
                steps = gaussJordan(input).steps
          [] result.operation \in DeterminantSpellings ->
                steps = calculateDeterminant(input).steps
          [] result.operation \in InverseSpellings ->
                steps = calculateInverse(input).steps
          [] OTHER ->
                /\ Len(steps) = 1
                /\ steps[1].description = "Operation not yet implemented"
                /\ steps[1].matrix = input
                /\ steps[1].ref = InputRef

C19_Witness ==
    /\ Returned("generateSteps")
    /\ result.operation = "RREF"
    /\ Rows(input) = 2
    /\ steps = gaussJordan(input).steps
    /\ \E k \in 1..Len(steps) : steps[k].operation = "add"

\* The output and the solution the README documents for ExampleSystem.
ExampleOutput == <<<<Int2Num(1), Int2Num(0), Int2Num(2)>>,
                   <<Int2Num(0), Int2Num(1), Int2Num(1)>>>>
ExampleSolution == <<Int2Num(2), Int2Num(1)>>

\* C20: gaussianElimination on [[1,2,4],[3,4,10]] returns the final matrix
\* [[1,0,2],[0,1,1]] and the solution x = 2, y = 1 (each entry up to the
\* tolerance).
C20_ReadmeGaussianExample ==
    (Returned("gaussianElimination") /\ input = ExampleSystem) =>
        /\ Rows(result.finalMatrix) = 2
        /\ \A i \in 1..2 : \A j \in 1..3 :
               Near(result.finalMatrix[i][j], ExampleOutput[i][j])
        /\ Len(result.solution) = 2
        /\ \A i \in 1..2 : Near(result.solution[i], ExampleSolution[i])

\* What a step shows: everything but the place of its matrix in memory.
StepContent(s) ==
    [description |-> s.description, matrix |-> s.matrix,
     highlightedRows |-> s.highlightedRows, operation |-> s.operation]

\* [A | I] for a square A.
WithIdentity(A) ==
    [i \in 1..Rows(A) |-> A[i] \o [j \in 1..Rows(A) |-> IF i = j THEN One ELSE Zero]]

\* Every entry of the left n columns of M is closer than the tolerance to the
\* identity's.
LeftIsIdentity(M, n) ==
    \A i \in 1..n : \A j \in 1..n :
        Lt(Abs(Sub(M[i][j], IF i = j THEN One ELSE Zero)), TOL)

\* C21: the trace calculateInverse returns for a square input is the setup
\* step with the n x 2n matrix [A | I], then the steps of gaussJordan([A | I])
\* in their order, then one verdict step, which is "Inverse Matrix Found"
\* exactly when the left n columns of the reduced matrix are the identity up
\* to the tolerance, and "NOT INVERTIBLE" otherwise.
C21_InverseTraceOrder ==
    (Returned("calculateInverse") /\ isSquareMatrix(input)) =>
        /\ Len(steps) = Len(gaussJordan(WithIdentity(input)).steps) + 2
        /\ steps[1].description = "Create Augmented Matrix"
        /\ steps[1].matrix = WithIdentity(input)
        /\ \A k \in 1..Len(gaussJordan(WithIdentity(input)).steps) :
               StepContent(steps[k + 1]) =
                   StepContent(gaussJordan(WithIdentity(input)).steps[k])
        /\ steps[Len(steps)].description =
               IF LeftIsIdentity(gaussJordan(WithIdentity(input)).result.finalMatrix,
                                 Rows(input))
               THEN "Inverse Matrix Found"
               ELSE "Matrix is NOT INVERTIBLE"

C21_Witness ==
    /\ Returned("calculateInverse")
    /\ Rows(input) = 2
    /\ Cols(input) = 2
    /\ input[2][1] = TOL
    /\ input[1][1] = One
    /\ input[2][2] = One
    /\ input[1][2] = Zero
    /\ steps[Len(steps)].description = "Matrix is NOT INVERTIBLE"
    /\ Len(steps) > 3

\* The column begun at step k: each pass of the column loop pushes one
\* "Working on Column" step, so it is the number of such steps up to k.
ColumnAt(k) ==
    Cardinality({q \in 1..k : steps[q].description = "Working on Column"})

\* The lowest row from row r down whose entry in column c of M is largest in
\* magnitude.
LargestRow(M, c, r) ==
    CHOOSE p \in r..Rows(M) :
        /\ \A q \in r..Rows(M) : ~Gt(Abs(M[q][c]), Abs(M[p][c]))
        /\ \A q \in r..(p - 1) : Lt(Abs(M[q][c]), Abs(M[p][c]))

Exchanged(M, r, p) ==
    [i \in 1..Rows(M) |-> IF i = r THEN M[p] ELSE IF i = p THEN M[r] ELSE M[i]]

SwapCount == Cardinality({k \in 1..Len(steps) : steps[k].operation = "swap"})

\* C22: in gaussianElimination and calculateDeterminant, at each column whose
\* pivot is not below the tolerance, a step tagged "swap" follows the
\* "Working on Column" step exactly when the lowest row of largest magnitude
\* in that column (from the pivot position down) is not the pivot position,
\* and it shows that row exchanged with the pivot position; no other swap
\* step exists; gaussianElimination on [[0,1],[1,0]] records one swap step
\* and returns [[1,0],[0,1]].
C22_PartialPivoting ==
    (Returned("gaussianElimination") \/
     (Returned("calculateDeterminant") /\ isSquareMatrix(input))) =>
        /\ \A k \in 1..Len(steps) :
               steps[k].description = "Working on Column" =>
                   /\ k < Len(steps)
                   /\ (steps[k + 1].operation = "swap") <=>
                          (LargestRow(steps[k].matrix, ColumnAt(k),
                                      steps[k].highlightedRows[1])
                               # steps[k].highlightedRows[1])
                   /\ (steps[k + 1].operation = "swap") =>
                          /\ steps[k + 1].matrix =
                                 Exchanged(steps[k].matrix, steps[k].highlightedRows[1],
                                           LargestRow(steps[k].matrix, ColumnAt(k),
                                                      steps[k].highlightedRows[1]))
                          /\ steps[k + 1].highlightedRows =
                                 <<steps[k].highlightedRows[1],
                                   LargestRow(steps[k].matrix, ColumnAt(k),
                                              steps[k].highlightedRows[1])>>
        /\ \A k \in 1..Len(steps) :
               steps[k].operation = "swap" =>
                   (k > 1 /\ steps[k - 1].description = "Working on Column")
        /\ (Returned("gaussianElimination") /\
            input = <<<<Zero, One>>, <<One, Zero>>>>) =>
               /\ SwapCount = 1
               /\ result.finalMatrix = <<<<One, Zero>>, <<Zero, One>>>>

C22_Witness ==
    /\ Returned("gaussianElimination")
    /\ Rows(input) = 3
    /\ input[1][1] = Zero
    /\ input[2][1] = One
    /\ input[3][1] = One
    /\ steps[3].operation = "swap"
    /\ steps[3].highlightedRows = <<1, 2>>

\* Every entry of column c of M from row r down is below the tolerance.
ColumnBelowFrom(M, c, r) == \A row \in r..Rows(M) : Lt(Abs(M[row][c]), TOL)

\* The number of columns the forward elimination of an n x m matrix visits.
LastColumn(M) == Min(Rows(M), Cols(M) - 1)

\* C23: in gaussianElimination, when the column begun at step k has only
\* entries below the tolerance from the current row down, the next step is
\* the skip step, with the matrix of step k and no row-operation tag, and the
\* step after it begins the next column with the same matrix and the same
\* current row, or, after the last column, is the "Row Echelon Form" step
\* with the same matrix: the run goes on and reports no failure.
C23_ZeroColumnSkipped ==
    Returned("gaussianElimination") =>
        \A k \in 1..Len(steps) :
            (/\ steps[k].description = "Working on Column"
             /\ ColumnBelowFrom(steps[k].matrix, ColumnAt(k),
                                steps[k].highlightedRows[1])) =>
                /\ k + 2 <= Len(steps)
                /\ steps[k + 1].description = "All entries below are zero"
                /\ steps[k + 1].matrix = steps[k].matrix
                /\ steps[k + 1].operation \notin RowOperations
                /\ steps[k + 2].matrix = steps[k].matrix
                /\ steps[k + 2].operation \notin RowOperations
                /\ IF ColumnAt(k) < LastColumn(input)
                   THEN /\ steps[k + 2].description = "Working on Column"
                        /\ steps[k + 2].highlightedRows = steps[k].highlightedRows
                   ELSE steps[k + 2].description = "Row Echelon Form Achieved"

C23_Witness ==
    /\ Returned("gaussianElimination")
    /\ Rows(input) = 3
    /\ Cols(input) = 4
    /\ steps[2].description = "Working on Column"
    /\ steps[3].description = "All entries below are zero"
    /\ steps[4].description = "Working on Column"
    /\ steps[4].highlightedRows = <<1>>
    /\ \E k \in 5..Len(steps) : steps[k].operation = "add"

\* The product of the first k diagonal entries of M.
RECURSIVE DiagonalProduct(_, _)
DiagonalProduct(M, k) == IF k = 0 THEN One ELSE Mul(DiagonalProduct(M, k - 1), M[k][k])

Signed(s, x) == IF s % 2 = 0 THEN x ELSE Neg(x)

\* C24: when calculateDeterminant on a square matrix passes all columns (no
\* "Determinant is ZERO" step), the running determinant on leaving the loop is
\* (-1)^s times the product of the diagonal of finalMatrix, s the number of
\* swap steps (so the row additions have not changed it), the determinant
\* returned is that value cleaned, and from the "Pivot element" step of
\* column c on, row c is the same in every later step and in finalMatrix.
C24_DeterminantIsSignedDiagonal ==
    (/\ Returned("calculateDeterminant")
     /\ isSquareMatrix(input)
     /\ steps[Len(steps)].description = "Final Result") =>
        /\ DetAfterLoop(input).determinant =
               Signed(SwapCount, DiagonalProduct(result.finalMatrix, Rows(input)))
        /\ result.determinant =
               <<cleanNumber(Signed(SwapCount,
                                    DiagonalProduct(result.finalMatrix, Rows(input))))>>
        /\ \A k \in 1..Len(steps) :
               steps[k].description = "Pivot element" =>
                   /\ \A q \in k..Len(steps) :
                          steps[q].matrix[steps[k].highlightedRows[1]] =
                              steps[k].matrix[steps[k].highlightedRows[1]]
                   /\ result.finalMatrix[steps[k].highlightedRows[1]] =
                          steps[k].matrix[steps[k].highlightedRows[1]]

C24_Witness ==
    /\ Returned("calculateDeterminant")
    /\ Rows(input) = 3
    /\ Cols(input) = 3
    /\ steps[Len(steps)].description = "Final Result"
    /\ SwapCount = 1
    /\ Cardinality({k \in 1..Len(steps) :
                       steps[k].description = "Eliminate below pivot"}) >= 2
    /\ result.determinant # <<Zero>>

\* The descriptions of the error steps of the engine.
ErrorDescriptions ==
    {"Error: Determinant only exists for square matrices",
     "Error: Only square matrices have inverses",
     "Matrix is NOT INVERTIBLE", "Determinant is ZERO"}

SolvedCount == Cardinality({k \in 1..Len(steps) : steps[k].description = "Solved"})

\* C25: gaussianElimination on an n x (n+1) matrix returns a solution of n
\* entries with one "Solved" step for each and no error step, whatever the
\* diagonal of the row-echelon finalMatrix; where finalMatrix[i][i] is zero
\* the division is still made and x_i is Infinity, -Infinity or NaN.
C25_UnguardedBackSubstitution ==
    (Returned("gaussianElimination") /\ isAugmentedMatrix(input)) =>
        /\ Len(result.solution) = Rows(input)
        /\ SolvedCount = Rows(input)
        /\ \A k \in 1..Len(steps) : steps[k].description \notin ErrorDescriptions
        /\ \A i \in 1..Rows(input) :
               result.finalMatrix[i][i] = Zero => ~IsFinite(result.solution[i])

C25_Witness ==
    /\ Returned("gaussianElimination")
    /\ Rows(input) = 3
    /\ Cols(input) = 4
    /\ result.finalMatrix[1][1] = One
    /\ result.finalMatrix[2][2] = Zero
    /\ result.solution[3] = Infinity
    /\ ~IsFinite(result.solution[2])
    /\ SolvedCount = 3

NonFinite == {NaN, Infinity, Neg(Infinity)}

\* C26: validateMatrix returns true exactly when the matrix is there, has at
\* least one row, every row is as long as the first and no entry is NaN,
\* Infinity or -Infinity; for a missing, an empty or a ragged matrix it
\* returns false.
C26_ValidateMatrix ==
    Returned("validateMatrix") =>
        (result.returns <=>
            /\ input.present
            /\ Len(input.rows) >= 1
            /\ \A i \in 1..Len(input.rows) :
                   /\ Len(input.rows[i]) = Len(input.rows[1])
                   /\ \A j \in 1..Len(input.rows[i]) : input.rows[i][j] \notin NonFinite)

C26_Witness ==
    /\ Returned("validateMatrix")
    /\ input.present
    /\ Len(input.rows) = 2
    /\ Len(input.rows[1]) = 2
    /\ Len(input.rows[2]) = 2
    /\ input.rows[2][2] = Infinity
    /\ input.rows[1] = <<Zero, One>>
    /\ ~result.returns

\* C27: for an n x (n+1) input [A|b] with A invertible, gaussianElimination
\* returns the solution gaussJordan returns (entry by entry up to the
\* tolerance), and that solution x satisfies A*x = b up to the tolerance.
C27_SameSolution ==
    (Returned("gaussianElimination") /\ isAugmentedMatrix(input)
        /\ Invertible(LeftColumns(input, Rows(input)))) =>
        /\ Len(result.solution) = Rows(input)
        /\ Len(gaussJordan(input).result.solution) = Rows(input)
        /\ \A i \in 1..Rows(input) :
              /\ Near(result.solution[i], gaussJordan(input).result.solution[i])
              /\ Near(Dot(input[i], result.solution, Rows(input)), input[i][Cols(input)])

\* C28: while StepVisualization is mounted (steps non-empty), after any
\* Previous, Next and list clicks and any new solve results, the selected
\* index is that of a step of the current trace: 0 <= currentStep < steps.length.
C28_CurrentStepInRange ==
    Len(steps) > 0 => (0 <= currentStep /\ currentStep < Len(steps))

\* The rows from s.row on hold no entry at or above the tolerance in the
\* columns from lead on.
NothingLeft(s) ==
    /\ s.at # "idle"
    /\ s.row <= Rows(s.st.matrix)
    /\ \A i \in s.row..Rows(s.st.matrix) : \A j \in s.st.lead..Cols(s.st.matrix) :
           Lt(Abs(s.st.matrix[i][j]), TOL)

\* How far the pivot search has come: column first, then row.
Position(s) == s.st.lead * (Rows(s.st.matrix) + 1) + s.pivotRow

\* A bound on the steps the call has yet to take: 0 once it has returned, 1
\* after the loop, and before that the rows yet to work on, each worth a
\* Band, then the positions the search of this row has yet to test.
Band(M) == 3 * (Cols(M) + 2) * (Rows(M) + 1) + 4
Stage(at) == CASE at = "test" -> 2 [] at \in {"advance", "found"} -> 1 [] OTHER -> 0
Rank ==
    IF phase = "returned" THEN 0
    ELSE IF search.at = "done" THEN 1
    ELSE IF search.at = "idle" THEN 2 + (Rows(input) + 1) * Band(input)
    ELSE 2 + (Rows(search.st.matrix) + 1 - search.row) * Band(search.st.matrix)
           + (IF search.at = "row" THEN Band(search.st.matrix) - 1
              ELSE 3 * ((Cols(search.st.matrix) + 2) * (Rows(search.st.matrix) + 1)
                        - Position(search))
                   + Stage(search.at))

\* The descriptions of the steps from the k-th on.
DescriptionsFrom(trace, k) == {trace[i].description : i \in k..Len(trace)}

\* C29: gaussJordan terminates on every non-empty rectangular matrix: every
\* step of the call lowers Rank, a natural number, no step throws, and what
\* the call returns is what the loop taken whole returns; each turn of the
\* pivot search moves pivotRow down or lead right; each read
\* matrix[pivotRow][lead] has pivotRow a row and lead a column of the matrix;
\* once the rows from row on hold nothing but zeros from lead on, the matrix
\* no longer changes, no step but "Working on Row" is recorded, and the loop
\* ends with lead = m.
C29_PivotSearch ==
    /\ [](search.at = "test" =>
             /\ search.pivotRow \in 1..Rows(search.st.matrix)
             /\ search.st.lead \in 1..Cols(search.st.matrix))
    /\ [][search.at = "advance" => Position(search') > Position(search)]_search
    /\ [](Rank >= 0 /\ search.at # "threw")
    /\ [][Rank' < Rank]_vars
    /\ [](phase = "returned" =>
             /\ call = "gaussJordan"
             /\ steps = gaussJordan(input).steps
             /\ result = gaussJordan(input).result)
    /\ [][NothingLeft(search) =>
             /\ search'.st.matrix = search.st.matrix
             /\ search'.at \notin {"found", "threw"}
             /\ DescriptionsFrom(search'.st.steps, Len(search.st.steps) + 1)
                    \subseteq {"Working on Row"}]_search
    /\ [](NothingLeft(search) /\ search.at = "done" =>
             search.st.lead = Cols(search.st.matrix) + 1)

\* A 3 x 3 matrix whose second row the first row cleared: the search of the
\* second row ran through every column and the loop ended there.
C29_Witness ==
    /\ search.at = "done"
    /\ Rows(search.st.matrix) = 3
    /\ search.row = 2
    /\ search.st.lead = 4
    /\ input[2][1] = One
    /\ NothingLeft(search)

\* A step of handleMatrixInput: under SpecApp the only one that leaves the
\* selected operation and the step shown as they are.
HandlerStep == selectedOperation' = selectedOperation /\ currentStep' = currentStep

\* The matrix is invalid, or the operation is 'determinant' or 'inverse' and
\* the matrix has not as many columns as rows.
RefusalCase(matrix, operation) ==
    \/ ~validateMatrix(matrix)
    \/ /\ operation \in {"determinant", "inverse"}
       /\ Len(matrix.rows) # Len(matrix.rows[1])

\* What each of the four engine functions returns on M.
EngineCalls(M) ==
    {[call |-> "gaussianElimination", r |-> gaussianElimination(M)],
     [call |-> "gaussJordan", r |-> gaussJordan(M)],
     [call |-> "calculateDeterminant", r |-> calculateDeterminant(M)],
     [call |-> "calculateInverse", r |-> calculateInverse(M)]}

\* steps and solution are now the trace and the result of one engine call.
OneEngineCall ==
    \E e \in EngineCalls(input'.rows) :
        call' = e.call /\ steps' = e.r.steps /\ result' = e.r.result

\* Nothing was called and steps and solution are as before.
LeftUnchanged == call' = "none" /\ steps' = steps /\ result' = result

\* The names the switch of handleMatrixInput has a case for.
RecognisedNames ==
    {"gaussian elimination", "gaussian-elimination", "gauss-jordan", "rref",
     "determinant", "inverse"}

\* Nothing was called and steps and solution are the placeholder: the one
\* step "Operation not implemented" and a result holding the input matrix.
Placeholder ==
    /\ call' = "none"
    /\ Len(steps') = 1
    /\ steps'[1].description = "Operation not implemented"
    /\ steps'[1].matrix = input'.rows
    /\ result'.finalMatrix = input'.rows
    /\ result'.solution = Absent
    /\ result'.determinant = Absent

\* C30 as stated: when validateMatrix rejects the input, or the operation is
\* 'determinant' or 'inverse' and the matrix is not square, handleMatrixInput
\* calls no engine function and leaves steps and solution unchanged; in
\* every other case both are replaced by the trace and the result of the
\* same single engine call.
C30_RefuseOrSingleEngineCall ==
    [][HandlerStep =>
          IF RefusalCase(input', selectedOperation) THEN LeftUnchanged
          ELSE OneEngineCall]_vars

\* C30 amended: as above, but the single engine call is made only when the
\* lower-cased operation name is one the switch recognises; for any other
\* name no engine function is called and steps and solution are replaced by
\* the placeholder.
C30_RefuseOrSwitch ==
    [][HandlerStep =>
          IF RefusalCase(input', selectedOperation) THEN LeftUnchanged
          ELSE IF toLowerCase(selectedOperation) \in RecognisedNames
               THEN OneEngineCall
               ELSE Placeholder]_vars

\* 'inverse' was refused on a valid matrix that is not square, and the trace
\* of an earlier call is still displayed.
C30_Witness ==
    /\ phase = "alerted"
    /\ selectedOperation = "inverse"
    /\ validateMatrix(input)
    /\ Len(input.rows) # Len(input.rows[1])
    /\ call = "none"
    /\ Len(steps) > 1

====
